---- MODULE Spec2Model ----
(***************************************************************************)
(* Model of the UStudy API (FastAPI + SQLAlchemy): the chat endpoint of    *)
(* src/routers/chat_ia.py with its helpers, and the assessment endpoint    *)
(* that gives a user a psychological state.                                *)
(*                                                                         *)
(* Texts.  A text is a sequence of tokens; consecutive tokens are          *)
(* separated by white space, which is not modelled (str.strip and the      *)
(* collapsing of blank lines leave a token sequence as it is).             *)
(*   "w"     prose holding none of the characters or phrases the regular   *)
(*           expressions and substring tests of chat_ia.py look for        *)
(*   "SENT"  the literal [RECOMENDAR_FORMULARIO]                           *)
(*   "NEST"  [RECOMENDAR_[RECOMENDAR_FORMULARIO]FORMULARIO]: the literal    *)
(*           written inside the literal                                    *)
(*   "TRIG"  prose holding the phrase "evaluación emocional"               *)
(*   "TRIGM" prose holding the phrase "EVALUACIÓN EMOCIONAL"               *)
(*   "FJ"    the fence opening ```json        "F"  the fence ```           *)
(*   "LBL"   the label "Bloque de tareas sugeridas:"                       *)
(*   "["     an opening bracket               "]"  a closing bracket       *)
(*   "oA".. "n7"  one JSON value of a list, followed by its comma          *)
(*   "oBr"   a JSON object whose description holds a "]"                   *)
(*   "tailBr" what is left of "oBr" after the text up to that "]" is cut    *)
(*   "bad"   a truncated JSON object, {"titulo": "aaaa",                   *)
(*   "bulB"  a line of its own: "• bbbb: <description of 11+ characters>"  *)
(*                                                                         *)
(* Titles.  A title is [base, len]: the first len characters of the        *)
(* endless string named base, so that slicing keeps base and cuts len.     *)
(***************************************************************************)
EXTENDS Integers, Sequences, FiniteSets, TLC

\* ------------------------------------------------------------ bounds
\* Number of API calls in one behaviour of Spec.
MaxCalls == 3
\* Number of API calls in one behaviour of SpecNag.
MaxTurnos == 12

\* ------------------------------------------------- program constants
\* titulo[:100]
TitleMax == 100
\* obtener_historial_chat(db, usuario_id, offset=0, limit=10)
HistLimit == 10

\* ------------------------------------------------------------ helpers

MinOr0(S) == IF S = {} THEN 0 ELSE CHOOSE x \in S : \A y \in S : x <= y

Range(s) == {s[i] : i \in 1..Len(s)}


\* Python's x.get(k, default) on a dict
Get(d, k, default) == IF k \in DOMAIN d THEN d[k] ELSE default

\* Python's "not x" for a request field: None (missing) or the empty string
Missing == "<None>"
Falsy(x) == x = Missing \/ x = ""

\* ------------------------------------------------------------- titles
Title(b, n) == [base |-> b, len |-> n]

EmptyTitle == Title("", 0)

SinTitulo == Title("Sin titulo", 10)

\* titulo[:n]
Slice(t, n) == IF t.len <= n THEN t ELSE Title(t.base, n)

\* ------------------------------------------------------- JSON values
ItemToks == {"oA", "oB", "oL1", "oL2", "oNoT", "oNoP", "oBr", "oUrg", "n7"}

\* The value json.loads gives for one element of a list.
ItemValue(tok) ==
  CASE tok = "oA"   -> [titulo |-> Title("a", 4), descripcion |-> "dA", prioridad |-> "baja"]
    [] tok = "oB"   -> [titulo |-> Title("b", 4), descripcion |-> "dB", prioridad |-> "alta"]
    [] tok = "oL1"  -> [titulo |-> Title("L", 101), descripcion |-> "dL", prioridad |-> "media"]
    [] tok = "oL2"  -> [titulo |-> Title("L", 102), descripcion |-> "dL", prioridad |-> "media"]
    [] tok = "oNoT" -> [descripcion |-> "dN", prioridad |-> "alta"]
    [] tok = "oNoP" -> [titulo |-> Title("c", 4), descripcion |-> "dC"]
    [] tok = "oBr"  -> [titulo |-> Title("d", 4), descripcion |-> "x ] y", prioridad |-> "alta"]
    [] tok = "oUrg" -> [titulo |-> Title("e", 4), descripcion |-> "dE", prioridad |-> "urgente"]
    [] tok = "n7"   -> [number |-> 7]

\* The values a sequence of value tokens writes.
Valores(l) == [i \in 1..Len(l) |-> ItemValue(l[i])]

\* isinstance(x, dict): only a dict has .get
IsDict(v) == "number" \notin DOMAIN v

\* The quoted key names written in a token, in the order titulo, descripcion,
\* prioridad.
TokKeys(tok) ==
  IF tok = "bad" THEN {"titulo"}
  ELSE IF tok = "tailBr" THEN {"prioridad"}
  ELSE IF tok \in ItemToks /\ IsDict(ItemValue(tok)) THEN DOMAIN ItemValue(tok)
  ELSE {}

\* A lenient reader that keeps the values it can read of any span.
JsonLoadsTolerante(s, b, e) ==
  [ok |-> TRUE,
   val |-> Valores(SelectSeq(SubSeq(s, b + 1, e - 1), LAMBDA t : t \in ItemToks))]

\* json.loads of the text from the bracket of s[b] to the bracket of s[e]: a
\* list when these are the tokens "[" and "]" and all between them are values.
JsonLoads(s, b, e) ==
  LET inner == SubSeq(s, b + 1, e - 1)
  IN  IF s[b] = "[" /\ s[e] = "]" /\ \A i \in 1..Len(inner) : inner[i] \in ItemToks
      THEN [ok |-> TRUE, val |-> [i \in 1..Len(inner) |-> ItemValue(inner[i])]]
      ELSE [ok |-> FALSE, val |-> <<>>]

\* ------------------------------------------------ the four patterns
NoMatch == [found |-> FALSE, lo |-> 0, b |-> 0, e |-> 0, hi |-> 0]

\* The closing ``` of a fenced pattern also matches the first characters of
\* ```json.
Closers == {"F", "FJ"}

\* The tokens that start with "[", that end with "]", and that hold a "]".
Abre == {"[", "SENT"}

Cierra == {"]", "SENT"}

TieneCierre == {"]", "SENT", "oBr"}

\* The first token whose "]" can end a group that opens at b: the sentinel's
\* own "]" comes after its "[".
Desde(s, b) == IF s[b] = "SENT" THEN b ELSE b + 1

\* \[[\s\S]+?\]\s*``` from the bracket at b: the first "]" with a fence next.
EndFenced(s, b) ==
  MinOr0({j \in Desde(s, b)..(Len(s) - 1) : s[j] \in Cierra /\ s[j + 1] \in Closers})

\* \[[\s\S]+?\] from the bracket at b: the first "]".
EndOpen(s, b) == MinOr0({j \in Desde(s, b)..Len(s) : s[j] \in TieneCierre})

\* The first token from position p on that writes key k.
NextKey(s, p, k) ==
  IF p = 0 THEN 0 ELSE MinOr0({j \in p..Len(s) : k \in TokKeys(s[j])})

\* \[[\s\S]*?"titulo"[\s\S]*?"descripcion"[\s\S]*?"prioridad"[\s\S]*?\]
\* from the bracket at b.
EndByKeys(s, b) ==
  LET t == NextKey(s, b + 1, "titulo")
      d == NextKey(s, t, "descripcion")
      p == NextKey(s, d, "prioridad")
  IN  IF p = 0 THEN 0 ELSE MinOr0({j \in (p + 1)..Len(s) : s[j] \in TieneCierre})

\* Where the match of pattern k whose bracket is at b ends, 0 if none.
EndOf(k, s, b) ==
  CASE k \in {1, 2} -> EndFenced(s, b)
    [] k = 3        -> EndOpen(s, b)
    [] OTHER        -> EndByKeys(s, b)

\* What patterns 1 to 3 open with, before the bracket.
Opener(k) == CASE k = 1 -> "FJ" [] k = 2 -> "F" [] OTHER -> "LBL"

\* The positions from p on where a match of pattern k starts.
Starts(k, s, p) ==
  IF k = 4
  THEN {i \in p..Len(s) : s[i] \in Abre /\ EndOf(k, s, i) # 0}
  ELSE {i \in p..(Len(s) - 1) :
          s[i] = Opener(k) /\ s[i + 1] \in Abre /\ EndOf(k, s, i + 1) # 0}

\* The match that starts at lo with its bracket at b and its "]" at e: the
\* match is lo..hi and its group 1 is b..e.
MatchSpan(k, lo, b, e) ==
  [found |-> TRUE, lo |-> lo, b |-> b, e |-> e,
   hi |-> IF k \in {1, 2} THEN e + 1 ELSE e]

MatchAt(k, s, lo) ==
  IF lo = 0 THEN NoMatch
  ELSE IF k = 4 THEN MatchSpan(k, lo, lo, EndOf(k, s, lo))
  ELSE MatchSpan(k, lo, lo + 1, EndOf(k, s, lo + 1))

\* The leftmost match of pattern k in s from position p on.
SearchFrom(k, s, p) == MatchAt(k, s, MinOr0(Starts(k, s, p)))

\* re.search(patterns[k], contenido)
Search(k, s) == SearchFrom(k, s, 1)

\* json.loads(match.group(1)) of a match, if there is one
ParseMatch(s, m) ==
  IF m.found THEN JsonLoads(s, m.b, m.e) ELSE [ok |-> FALSE, val |-> <<>>]

\* One pass of the loop over the patterns: the match of pattern k, parsed.
Parse(k, s) == ParseMatch(s, Search(k, s))

\* The first pattern whose match parses, 0 if none: a match that does not
\* parse is skipped.
PrimerPatron(s) == MinOr0({k \in 1..4 : Parse(k, s).ok})

\* extraer_bloque_tareas(contenido): the list of the first pattern whose
\* match parses; [] if none does.
extraer_bloque_tareas(contenido) ==
  IF PrimerPatron(contenido) = 0 THEN <<>>
  ELSE Parse(PrimerPatron(contenido), contenido).val

\* What a match leaves of its last token: the word json of a closing fence
\* that is the start of ```json, the rest of an object cut at the "]" of its
\* description.
Resto(tok) ==
  CASE tok = "FJ"  -> <<"w">>
    [] tok = "oBr" -> <<"tailBr">>
    [] OTHER       -> <<>>

\* One replacement of re.sub: the text from p to the match m is kept and the
\* substitution goes on after the match.
Cut(s, p, m, rest) ==
  IF ~m.found THEN SubSeq(s, p, Len(s))
  ELSE SubSeq(s, p, m.lo - 1) \o Resto(s[m.hi]) \o rest[m.hi + 1]

\* re.sub(patterns[k], '', s): every match, left to right.
ReSub(k, s) ==
  LET rest[p \in 1..(Len(s) + 1)] == Cut(s, p, SearchFrom(k, s, p), rest)
  IN  rest[1]

\* limpiar_respuesta_ia(contenido): the first three patterns are removed.
limpiar_respuesta_ia(contenido) == ReSub(3, ReSub(2, ReSub(1, contenido)))

\* "[RECOMENDAR_FORMULARIO]" in contenido_ia
TieneSentinel(s) == \E i \in 1..Len(s) : s[i] \in {"SENT", "NEST"}

\* str.replace on one token: one pass from left to right that does not look
\* again at what it has written, so the literal inside "NEST" goes and the
\* characters around it are left side by side.
SinLiteral(tok) ==
  CASE tok = "SENT" -> <<>>
    [] tok = "NEST" -> <<"SENT">>
    [] OTHER        -> <<tok>>

\* contenido_ia.replace("[RECOMENDAR_FORMULARIO]", "").strip()
QuitarSentinel(s) ==
  LET upTo[n \in 0..Len(s)] ==
        IF n = 0 THEN <<>> ELSE upTo[n - 1] \o SinLiteral(s[n])
  IN  upTo[Len(s)]

\* The line patterns of the free-text scanner: of the tokens, only a bullet
\* line matches one ("• title: description"), with the default priority.
buscar_tareas_en_texto_limpio(texto) ==
  [i \in 1..Len(SelectSeq(texto, LAMBDA t : t = "bulB")) |->
     [titulo |-> Title("b", 4), descripcion |-> "dBul", prioridad |-> "media"]]

\* --------------------------------------------------------------- state
\* The tables historial_chat (in the order of fecha), tareas and
\* estado_psicologico (in the order of fecha); the uuid4 values given out; the
\* requests sent to the AI service; the calls made; what the last call saw,
\* did and answered; the requests that are being served side by side, each
\* with its own session (get_db gives every request a SessionLocal()); the
\* rows of the table of users.
VARIABLES chats, tareas, estados, nextId, aiCalls, calls, last, enCurso, usuarios

vars == <<chats, tareas, estados, nextId, aiCalls, calls, last, enCurso, usuarios>>

\* last: op, usuario, mensaje: the call; status: the HTTP status of the
\* answer; ai: what the AI service did; raw: its reply; text, esRecomendacion,
\* tareas_generadas: the answer of a chat call; extraidas: the tasks taken from
\* the reply; estado: whether the user had a state; historial: the history
\* read; recomendo: what ya_recomendo_formulario said of it; pideSentinel,
\* pideTareas: what the prompt asked for; backfill: how the reconciliation
\* ended; desde: the first uuid4 the call could give out; estadoUsado: the id
\* of the snapshot the call took as the state of the user; payload: the body
\* of a call on the tasks; cuenta: the count it answers; offset, limit: the
\* page asked of the history.
NoCall ==
  [op |-> "none", usuario |-> Missing, mensaje |-> Missing, status |-> 0,
   ai |-> "none", raw |-> <<>>, text |-> <<>>, esRecomendacion |-> FALSE,
   tareas_generadas |-> <<>>, extraidas |-> <<>>, estado |-> FALSE,
   historial |-> <<>>, recomendo |-> FALSE, pideSentinel |-> FALSE,
   pideTareas |-> FALSE, backfill |-> "none", desde |-> 0,
   estadoUsado |-> 0, payload |-> <<>>, cuenta |-> 0, offset |-> 0, limit |-> 0]

Init ==
  /\ chats = <<>>
  /\ tareas = {}
  /\ estados = <<>>
  /\ nextId = 1
  /\ aiCalls = 0
  /\ calls = 0
  /\ last = NoCall
  /\ enCurso = <<>>
  /\ usuarios = {}

\* ------------------------------------------------------------ queries
\* .first() of the snapshots of a user, oldest first.
PrimeroDe(mine) == IF mine = <<>> THEN <<>> ELSE <<mine[1]>>

\* db.query(EstadoPsicologico).filter_by(usuario_id).order_by(fecha.desc()).first()
UltimoDe(mine) == IF mine = <<>> THEN <<>> ELSE <<mine[Len(mine)]>>

obtener_ultimo_estado_psicologico(u) ==
  UltimoDe(SelectSeq(estados, LAMBDA e : e.usuario_id = u))

\* .offset(offset).limit(limit) of the rows latest first, then [::-1]
Ventana(mine, offset, limit) ==
  SubSeq(mine,
         IF Len(mine) - offset - limit + 1 < 1 THEN 1
         ELSE Len(mine) - offset - limit + 1,
         Len(mine) - offset)

\* order_by(fecha.desc()).offset(offset).limit(limit).all()[::-1]
obtener_historial_chat(u, offset, limit) ==
  Ventana(SelectSeq(chats, LAMBDA h : h.usuario_id = u), offset, limit)

FrasesRecomendacion == {"TRIG"}

\* respuesta_lower = h.respuesta_ia.lower(), token by token
Lower(tok) == IF tok = "TRIGM" THEN "TRIG" ELSE tok

\* A search for the phrases in the reply as it is written.
ya_recomendo_sin_lower(historial) ==
  \E i \in 1..Len(historial) :
    \/ historial[i].recomendacion_formulario
    \/ \E j \in 1..Len(historial[i].respuesta_ia) :
         historial[i].respuesta_ia[j] \in FrasesRecomendacion

\* any turn with the flag set, or with a trigger phrase in its reply
ya_recomendo_formulario(historial) ==
  \E i \in 1..Len(historial) :
    \/ historial[i].recomendacion_formulario
    \/ \E j \in 1..Len(historial[i].respuesta_ia) :
         Lower(historial[i].respuesta_ia[j]) \in FrasesRecomendacion

\* ------------------------------------------------- history reconciliation
\* Tarea(id=str(uuid.uuid4()), ..., sincronizada=False, completada=False)
Tarea(id, u, titulo, descripcion, prioridad, origen) ==
  [id |-> id, usuario_id |-> u, titulo |-> titulo, descripcion |-> descripcion,
   prioridad |-> prioridad, origen |-> origen,
   sincronizada |-> FALSE, completada |-> FALSE]

\* tareas_encontradas: the structured block if it gives anything, else the
\* free-text scanner.
Encontradas(j, texto) ==
  IF Len(j) > 0 THEN j ELSE buscar_tareas_en_texto_limpio(texto)

\* What one turn of the history yields; nothing for an empty reply.
TareasEncontradas(h) ==
  IF h.respuesta_ia = <<>> THEN <<>>
  ELSE Encontradas(extraer_bloque_tareas(h.respuesta_ia), h.respuesta_ia)

\* The candidates of the whole history, in the order the loops meet them.
Candidatas(historial) ==
  LET upTo[n \in 0..Len(historial)] ==
        IF n = 0 THEN <<>> ELSE upTo[n - 1] \o TareasEncontradas(historial[n])
  IN  upTo[Len(historial)]

\* titulo not in titulos_existentes: the candidate's own title is looked up.
YaExiste(titulo, titulos_existentes) == titulo \in titulos_existentes

\* A loop body that does not add the title to titulos_existentes.
GuardarUnaSinAnotar(prev, tarea_data, titulo, u, id0) ==
  IF prev.raised THEN prev
  ELSE IF ~IsDict(tarea_data) THEN [prev EXCEPT !.raised = TRUE]
  ELSE IF YaExiste(titulo, prev.titulos) THEN prev
  ELSE [prev EXCEPT
          !.nuevas = Append(prev.nuevas,
                            Tarea(id0 + Len(prev.nuevas), u, Slice(titulo, TitleMax),
                                  Get(tarea_data, "descripcion", ""),
                                  Get(tarea_data, "prioridad", "media"), "ia"))]

\* One candidate: one whose title is not among the existing ones is added to
\* the session under titulo[:100], and its title joins the existing ones. A
\* candidate that is no dict raises.
GuardarUna(prev, tarea_data, titulo, u, id0) ==
  IF prev.raised THEN prev
  ELSE IF ~IsDict(tarea_data) THEN [prev EXCEPT !.raised = TRUE]
  ELSE IF YaExiste(titulo, prev.titulos) THEN prev
  ELSE [raised  |-> FALSE,
        titulos |-> prev.titulos \cup {titulo},
        nuevas  |-> Append(prev.nuevas,
                           Tarea(id0 + Len(prev.nuevas), u, Slice(titulo, TitleMax),
                                 Get(tarea_data, "descripcion", ""),
                                 Get(tarea_data, "prioridad", "media"), "ia"))]

\* The loop over the candidates.
GuardarNuevas(cands, titulos_existentes, u, id0) ==
  LET paso[n \in 0..Len(cands)] ==
        IF n = 0
        THEN [raised |-> FALSE, titulos |-> titulos_existentes, nuevas |-> <<>>]
        ELSE GuardarUna(paso[n - 1], cands[n],
                        Get(cands[n], "titulo", EmptyTitle), u, id0)
  IN  paso[Len(cands)]

\* A table that refuses a second row of a user with a title it holds.
ConfirmadasTituloUnico(filas, nuevas) ==
  filas \cup {n \in Range(nuevas) :
                ~\E x \in filas : x.usuario_id = n.usuario_id /\ x.titulo = n.titulo}

\* {tarea.titulo for tarea in db.query(Tarea).filter_by(usuario_id, origen="ia")}:
\* the committed rows (the session does not autoflush).
TitulosExistentes(u) ==
  {t.titulo : t \in {x \in tareas : x.usuario_id = u /\ x.origen = "ia"}}

\* if tareas_guardadas > 0: db.commit(), and db.rollback() if it fails.
\* commit is "none" (nothing to save), "ok" or "failed" (rolled back, not
\* raised).
Cierre(r, falla) ==
  [raised |-> r.raised,
   nuevas |-> r.nuevas,
   commit |-> IF r.raised \/ Len(r.nuevas) = 0 THEN "none"
              ELSE IF falla THEN "failed" ELSE "ok"]

\* verificar_y_guardar_tareas_historial(db, usuario_id, historial) on the
\* caller's session: db.commit() commits the whole session, db.rollback()
\* empties it.
verificar_y_guardar_tareas_historial(u, historial, id0, falla) ==
  Cierre(GuardarNuevas(Candidatas(historial), TitulosExistentes(u), u, id0), falla)

\* ------------------------------------------------------ POST /chat/ia
\* A validation that forgets mensaje: if not usuario_id
PayloadInvalidoSoloUsuario(u, mensaje) == Falsy(u)

\* if not usuario_id or not mensaje_usuario
PayloadInvalido(u, mensaje) == Falsy(u) \/ Falsy(mensaje)

\* A handler that drops the status check and fails only when the request raises.
AiFalloSoloExcepcion(ai) == ai.kind = "raise"

\* The request to the AI service fails: it raises, or its status is not 200.
AiFallo(ai) == ai.kind # "ok"

\* The prompt asks for a block of suggested tasks: if estado.
PideTareas(estado) == Len(estado) > 0

\* The prompt asks for the sentinel: no estado and not recommended before.
PideSentinel(estado, recomendo_formulario_previamente) ==
  Len(estado) = 0 /\ ~recomendo_formulario_previamente

\* mostrar_sugerencia_formulario = "[RECOMENDAR_FORMULARIO]" in contenido_ia
MostrarSugerencia(estado, contenido_ia) == TieneSentinel(contenido_ia)

\* An extraction that does not look at the state of the user.
TareasDelTurnoSiempre(estado, contenido_ia) == extraer_bloque_tareas(contenido_ia)

\* tareas = extraer_bloque_tareas(contenido_ia) if estado else []
TareasDelTurno(estado, contenido_ia) ==
  IF Len(estado) > 0 THEN extraer_bloque_tareas(contenido_ia) ELSE <<>>

\* A row built without recomendacion_formulario, left to the column default.
NuevoChatSinFlag(id, u, mensaje, limpio, mostrar) ==
  [id |-> id, usuario_id |-> u, mensaje_usuario |-> mensaje,
   respuesta_ia |-> limpio, recomendacion_formulario |-> FALSE]

\* HistorialChat(..., respuesta_ia=contenido_ia_limpio,
\*               recomendacion_formulario=mostrar_sugerencia_formulario)
NuevoChat(id, u, mensaje, limpio, mostrar) ==
  [id |-> id, usuario_id |-> u, mensaje_usuario |-> mensaje,
   respuesta_ia |-> limpio, recomendacion_formulario |-> mostrar]

\* The Tarea built for each task of the turn; none is checked against the
\* stored titles.
TareasNuevasDelTurno(ts, u, id0) ==
  [i \in 1..Len(ts) |->
     Tarea(id0 + i - 1, u, Slice(Get(ts[i], "titulo", SinTitulo), TitleMax),
           Get(ts[i], "descripcion", Missing), Get(ts[i], "prioridad", "media"),
           "ia")]

\* What of the session reaches the database: "all" (the turn, its tasks and
\* the backfill's tasks), "turn" (the turn and its tasks) or "nothing". t.get
\* raises on a task that is no dict; the backfill's commit commits the whole
\* session and its rollback empties it; the final db.commit() commits what is
\* left.
Persistido(ts, rec, falla_commit) ==
  CASE \E i \in 1..Len(ts) : ~IsDict(ts[i]) -> "nothing"
    [] rec.raised                            -> "nothing"
    [] rec.commit = "ok"                     -> "all"
    [] rec.commit = "failed"                 -> "nothing"
    [] OTHER -> IF falla_commit THEN "nothing" ELSE "turn"

\* 200 when nothing raised up to the return, 500 from the except clause. The
\* final db.commit() has rows to write, and so can be refused, only when the
\* backfill neither committed nor rolled back.
Estatus(ts, rec, falla_commit) ==
  IF /\ \A i \in 1..Len(ts) : IsDict(ts[i])
     /\ ~rec.raised
     /\ ~(rec.commit = "none" /\ falla_commit)
  THEN 200 ELSE 500

\* How the backfill ended, if it was reached.
Backfill(ts, rec) ==
  IF \E i \in 1..Len(ts) : ~IsDict(ts[i]) THEN "none"
  ELSE IF rec.raised THEN "raised" ELSE rec.commit

\* What the call read before the request to the AI service.
Visto(u, mensaje, estado, historial) ==
  [NoCall EXCEPT !.op = "chat", !.usuario = u, !.mensaje = mensaje,
     !.estado = Len(estado) > 0, !.historial = historial,
     !.estadoUsado = IF Len(estado) > 0 THEN estado[1].id ELSE 0,
     !.recomendo = ya_recomendo_formulario(historial),
     !.pideSentinel = PideSentinel(estado, ya_recomendo_formulario(historial)),
     !.pideTareas = PideTareas(estado), !.desde = nextId]

\* raise HTTPException(status_code=400): before any query
Rechazar(u, mensaje) ==
  /\ last' = [NoCall EXCEPT !.op = "chat", !.usuario = u, !.mensaje = mensaje,
                !.status = 400, !.desde = nextId]
  /\ UNCHANGED <<chats, tareas, nextId, aiCalls>>

\* The except clause after a failed request: nothing was added to the session.
FalloIA(visto, ai) ==
  /\ aiCalls' = aiCalls + 1
  /\ last' = [visto EXCEPT !.status = 500, !.ai = ai.kind]
  /\ UNCHANGED <<chats, tareas, nextId>>

\* The end of the call: the rows that reach the database and the answer.
Terminar(visto, ai, mostrar, chat, delTurno, ts, rec, queda, status) ==
  /\ aiCalls' = aiCalls + 1
  /\ chats' = IF queda = "nothing" THEN chats ELSE Append(chats, chat)
  /\ tareas' = CASE queda = "all"  -> tareas \cup Range(delTurno) \cup Range(rec.nuevas)
                 [] queda = "turn" -> tareas \cup Range(delTurno)
                 [] OTHER          -> tareas
  /\ nextId' = IF queda = "nothing" THEN nextId
               ELSE nextId + 1 + Len(ts) + Len(rec.nuevas)
  /\ last' = [visto EXCEPT
                !.status = status, !.ai = ai.kind, !.raw = ai.content,
                !.extraidas = ts,
                !.text = IF status = 200 THEN chat.respuesta_ia ELSE <<>>,
                !.esRecomendacion = status = 200 /\ mostrar,
                !.tareas_generadas = IF status = 200 THEN ts ELSE <<>>,
                !.backfill = Backfill(ts, rec)]

\* db.add(nuevo_chat), db.add(tarea) for each task of the turn, the backfill
\* over the history read at the start, db.commit().
Guardar(visto, u, ai, mostrar, chat, ts, rec, falla_commit) ==
  Terminar(visto, ai, mostrar, chat, TareasNuevasDelTurno(ts, u, nextId + 1), ts,
           rec, Persistido(ts, rec, falla_commit), Estatus(ts, rec, falla_commit))

\* The reply is read: the flag, the tasks of the turn, the clean text.
Responder(visto, u, mensaje, ai, historial, mostrar, ts, falla_b, falla_c) ==
  Guardar(visto, u, ai, mostrar,
          NuevoChat(nextId, u, mensaje,
                    limpiar_respuesta_ia(QuitarSentinel(ai.content)), mostrar),
          ts,
          verificar_y_guardar_tareas_historial(
            u, historial, nextId + 1 + Len(ts), falla_b),
          falla_c)

\* From the queries to the answer, for a valid payload.
Atender(u, mensaje, ai, estado, historial, falla_backfill, falla_commit) ==
  IF AiFallo(ai) THEN FalloIA(Visto(u, mensaje, estado, historial), ai)
  ELSE Responder(Visto(u, mensaje, estado, historial), u, mensaje, ai,
                 historial, MostrarSugerencia(estado, ai.content),
                 TareasDelTurno(estado, QuitarSentinel(ai.content)),
                 falla_backfill, falla_commit)

\* A turn that adds a snapshot of the state of the user.
ConversarConIaConEstado(u, mensaje, ai, falla_backfill, falla_commit) ==
  /\ calls' = calls + 1
  /\ aiCalls' = aiCalls + 1
  /\ estados' = Append(estados, [id |-> nextId, usuario_id |-> u,
                                 nivel |-> "verde", descripcion |-> ""])
  /\ nextId' = nextId + 1
  /\ last' = [NoCall EXCEPT !.op = "chat", !.usuario = u, !.mensaje = mensaje,
                !.status = 200, !.ai = ai.kind, !.desde = nextId]
  /\ UNCHANGED <<chats, tareas, enCurso, usuarios>>

\* conversar_con_ia(payload): ai is the answer of the AI service ("ok" with a
\* content, a status other than 200, or an exception of requests);
\* falla_backfill and falla_commit say whether the database refuses the
\* backfill's commit and the final commit.
ConversarConIa(u, mensaje, ai, falla_backfill, falla_commit) ==
  /\ calls' = calls + 1
  /\ UNCHANGED <<estados, enCurso, usuarios>>
  /\ IF PayloadInvalido(u, mensaje) THEN Rechazar(u, mensaje)
     ELSE Atender(u, mensaje, ai, obtener_ultimo_estado_psicologico(u),
                  obtener_historial_chat(u, 0, HistLimit),
                  falla_backfill, falla_commit)

\* ------------------------- POST /chat/ia/procesar-tareas-historial/{id}
\* order_by(HistorialChat.fecha.desc()).all()
HistorialCompleto(mine) == [i \in 1..Len(mine) |-> mine[Len(mine) + 1 - i]]

Procesado(u, historial, rec) ==
  /\ calls' = calls + 1
  /\ tareas' = IF rec.commit = "ok" THEN tareas \cup Range(rec.nuevas) ELSE tareas
  /\ nextId' = IF rec.commit = "ok" THEN nextId + Len(rec.nuevas) ELSE nextId
  /\ last' = [NoCall EXCEPT !.op = "procesar", !.usuario = u,
                !.status = IF rec.raised THEN 500 ELSE 200,
                !.historial = historial,
                !.backfill = IF rec.raised THEN "raised" ELSE rec.commit,
                !.desde = nextId]
  /\ UNCHANGED <<chats, estados, aiCalls, enCurso, usuarios>>

ProcesarCon(u, historial, falla) ==
  Procesado(u, historial,
            verificar_y_guardar_tareas_historial(u, historial, nextId, falla))

\* procesar_tareas_del_historial(usuario_id): the whole history, latest first.
\* A failed commit is rolled back inside the reconciliation and not raised.
ProcesarTareasDelHistorial(u, falla) ==
  ProcesarCon(u, HistorialCompleto(SelectSeq(chats, LAMBDA h : h.usuario_id = u)),
              falla)

\* --------------------------------- GET /chat/ia/historial/{usuario_id}
\* skip_count = total - offset, 0 when that is negative
Salto(total, offset) == IF total - offset < 0 THEN 0 ELSE total - offset

\* order_by(fecha.asc()).offset(skip_count).limit(limit).all()
PaginaSiguiente(mine, skip_count, limit) ==
  SubSeq(mine, skip_count + 1,
         IF skip_count + limit > Len(mine) THEN Len(mine) ELSE skip_count + limit)

\* The page of the history: the last limit turns in chronological order
\* when offset is 0, else the turns after the first total - offset.
Pagina(mine, offset, limit) ==
  IF offset = 0 THEN Ventana(mine, 0, limit)
  ELSE PaginaSiguiente(mine, Salto(Len(mine), offset), limit)

\* A read that does not call the reconciliation.
SinReconciliar == [raised |-> FALSE, nuevas |-> <<>>, commit |-> "none"]

\* A read that reconciles whatever the offset.
ReconciliaSiempre(offset) == TRUE

\* The reconciliation runs over the page only when offset is 0.
ReconciliaPagina(offset) == offset = 0

Leido(u, offset, limit, historial, rec) ==
  /\ calls' = calls + 1
  /\ tareas' = IF rec.commit = "ok" THEN tareas \cup Range(rec.nuevas) ELSE tareas
  /\ nextId' = IF rec.commit = "ok" THEN nextId + Len(rec.nuevas) ELSE nextId
  /\ last' = [NoCall EXCEPT !.op = "leer", !.usuario = u,
                !.status = IF rec.raised THEN 500 ELSE 200,
                !.historial = historial, !.offset = offset, !.limit = limit,
                !.cuenta = Len(historial),
                !.backfill = IF rec.raised THEN "raised" ELSE rec.commit,
                !.desde = nextId]
  /\ UNCHANGED <<chats, estados, aiCalls, enCurso, usuarios>>

LeerPagina(u, offset, limit, historial, falla) ==
  Leido(u, offset, limit, historial,
        IF ReconciliaPagina(offset)
          THEN verificar_y_guardar_tareas_historial(u, historial, nextId, falla)
          ELSE SinReconciliar)

\* obtener_historial_chat_usuario(usuario_id, offset, limit)
obtener_historial_chat_usuario(u, offset, limit, falla) ==
  LeerPagina(u, offset, limit,
             Pagina(SelectSeq(chats, LAMBDA h : h.usuario_id = u), offset, limit),
             falla)

\* ------------------------ POST /estado-psicologico/evaluar-estado-emocional
\* EstadoPsicologico(..., nivel=resultado.get("nivel", "amarillo"),
\*                   descripcion=resultado.get("descripcion", ""))
NuevoEstado(id, u, resultado) ==
  [id |-> id, usuario_id |-> u,
   nivel |-> Get(resultado, "nivel", "amarillo"),
   descripcion |-> Get(resultado, "descripcion", "")]

\* evaluar_estado_emocional(data): ai is the answer of the AI service, with
\* the JSON object read from it; the snapshot is added and committed.
EvaluarEstadoEmocional(u, ai, falla_commit) ==
  /\ calls' = calls + 1
  /\ aiCalls' = aiCalls + 1
  /\ estados' = IF ai.kind = "ok" /\ ~falla_commit
                THEN Append(estados, NuevoEstado(nextId, u, ai.resultado))
                ELSE estados
  /\ nextId' = IF ai.kind = "ok" /\ ~falla_commit THEN nextId + 1 ELSE nextId
  /\ last' = [NoCall EXCEPT !.op = "evaluar", !.usuario = u,
                !.status = IF ai.kind = "ok" /\ ~falla_commit THEN 200 ELSE 500,
                !.ai = ai.kind, !.desde = nextId]
  /\ UNCHANGED <<chats, tareas, enCurso, usuarios>>

\* ------------------------------------------------------------- inputs
Usuarios == {"u1", "u2"}

\* usuario_id and mensaje of a chat payload: present, empty or missing
PayloadUsuarios == Usuarios \cup {"", Missing}

PayloadMensajes == {"hola", "", Missing}

\* Replies of the assistant.
Respuestas ==
  { <<"w">>,
    <<"w", "SENT">>,
    <<"w", "FJ", "[", "oA", "oA", "]", "F">>,
    <<"w", "[", "oL1", "]">>,
    <<"SENT", "LBL", "[", "oB", "]", "bulB">> }

AiFalla ==
  {[kind |-> "status", content |-> <<>>], [kind |-> "raise", content |-> <<>>]}

AiChat == {[kind |-> "ok", content |-> r] : r \in Respuestas} \cup AiFalla

AiEval ==
  { [kind |-> "ok", resultado |-> [nivel |-> "verde", descripcion |-> "d"]],
    [kind |-> "status", resultado |-> [descripcion |-> ""]] }

\* ------------------------------------------------------ specification
Chat ==
  /\ calls < MaxCalls
  /\ \E u \in PayloadUsuarios, m \in PayloadMensajes, ai \in AiChat,
        fb \in BOOLEAN, fc \in BOOLEAN :
       ConversarConIa(u, m, ai, fb, fc)

Procesar ==
  /\ calls < MaxCalls
  /\ \E u \in Usuarios, f \in BOOLEAN : ProcesarTareasDelHistorial(u, f)

Evaluar ==
  /\ calls < MaxCalls
  /\ \E u \in Usuarios, ai \in AiEval, f \in BOOLEAN :
       EvaluarEstadoEmocional(u, ai, f)

Next == Chat \/ Procesar \/ Evaluar

Spec == Init /\ [][Next]_vars

\* One user without a state who keeps talking; the database never fails.
AiNag == {[kind |-> "ok", content |-> r] : r \in {<<"w">>, <<"w", "SENT">>}}

ChatNag ==
  /\ calls < MaxTurnos
  /\ \E ai \in AiNag : ConversarConIa("u1", "hola", ai, FALSE, FALSE)

NextNag == ChatNag

SpecNag == Init /\ [][NextNag]_vars

\* ------------------------------------- the first turn over many replies
\* Number of values in a list of a reply.
MaxItems == 2

ItemsTexto == {"oBr", "oNoP", "n7", "bad"}

\* The lists of at most MaxItems values.
Listas == UNION {[1..n -> ItemsTexto] : n \in 0..MaxItems}

\* A list in each of the four encodings.
Bloques ==
  {<<"FJ", "[">> \o l \o <<"]", "F">> : l \in Listas}
    \cup {<<"F", "[">> \o l \o <<"]", "F">> : l \in Listas}
    \cup {<<"LBL", "[">> \o l \o <<"]">> : l \in Listas}
    \cup {<<"[">> \o l \o <<"]">> : l \in Listas}

\* Prose, the sentinel, a well-formed list of one task in each encoding, and
\* a json fence around a list that does not parse.
Cortos ==
  { <<>>, <<"w">>, <<"SENT">>, <<"NEST">>, <<"FJ", "[", "bad", "]", "F">>,
    <<"FJ", "[", "oB", "]", "F">>, <<"F", "[", "oB", "]", "F">>,
    <<"LBL", "[", "oB", "]">>, <<"[", "oB", "]">> }

\* The replies: a short piece and a block or a short piece, in both orders.
Textos ==
  {a \o b : a \in Cortos, b \in Bloques \cup Cortos}
    \cup {b \o a : a \in Cortos, b \in Bloques}

\* The user gets a state before the first turn.
EvaluarTexto ==
  /\ last.op = "none"
  /\ \E ai \in AiEval : EvaluarEstadoEmocional("u1", ai, FALSE)

\* The first turn of the user.
ChatTexto ==
  /\ last.op # "chat"
  /\ \E t \in Textos :
       ConversarConIa("u1", "hola", [kind |-> "ok", content |-> t], FALSE, FALSE)

NextTexto == EvaluarTexto \/ ChatTexto

SpecTexto == Init /\ [][NextTexto]_vars

\* ------------------------------------ extraer_bloque_tareas on its own
\* The text the function is given.
InitExtraer ==
  /\ chats = <<>> /\ tareas = {} /\ estados = <<>>
  /\ nextId = 1 /\ aiCalls = 0 /\ calls = 0 /\ enCurso = <<>> /\ usuarios = {}
  /\ \E t \in Textos : last = [NoCall EXCEPT !.op = "texto", !.raw = t]

\* tareas = extraer_bloque_tareas(contenido): no session is passed to it.
Extraer ==
  /\ last.op = "texto"
  /\ last' = [last EXCEPT !.op = "extraer",
                          !.extraidas = extraer_bloque_tareas(last.raw)]
  /\ UNCHANGED <<chats, tareas, estados, nextId, aiCalls, calls, enCurso, usuarios>>

NextExtraer == Extraer

SpecExtraer == InitExtraer /\ [][NextExtraer]_vars

\* ---------------------------------- ya_recomendo_formulario on its own
\* Number of turns of a history.
MaxHist == 3

\* A turn of the history of u1.
Turnos ==
  [usuario_id : {"u1"}, mensaje_usuario : {"hola"},
   respuesta_ia : {<<"w">>, <<"w", "TRIG">>, <<"TRIGM", "w">>},
   recomendacion_formulario : BOOLEAN]

\* The turns in the order of their ids.
Numerados(h) ==
  [i \in 1..Len(h) |->
     NuevoChat(i, h[i].usuario_id, h[i].mensaje_usuario, h[i].respuesta_ia,
               h[i].recomendacion_formulario)]

Historiales == UNION {{Numerados(h) : h \in [1..n -> Turnos]} : n \in 0..MaxHist}

\* The history the function is given.
InitRecomendo ==
  /\ chats = <<>> /\ tareas = {} /\ estados = <<>>
  /\ nextId = 1 /\ aiCalls = 0 /\ calls = 0 /\ enCurso = <<>> /\ usuarios = {}
  /\ \E h \in Historiales :
       last = [NoCall EXCEPT !.op = "historial", !.historial = h]

\* recomendo_formulario_previamente = ya_recomendo_formulario(historial)
YaRecomendo ==
  /\ last.op = "historial"
  /\ last' = [last EXCEPT !.op = "ya_recomendo",
                          !.recomendo = ya_recomendo_formulario(last.historial)]
  /\ UNCHANGED <<chats, tareas, estados, nextId, aiCalls, calls, enCurso, usuarios>>

NextRecomendo == YaRecomendo

SpecRecomendo == InitRecomendo /\ [][NextRecomendo]_vars

\* ------------------------------------------------ routers/tareas.py
Prioridades == {"alta", "media", "baja"}

Origenes == {"usuario", "ia"}

\* TareaCreate: titulo of 1 to 100 characters, validar_prioridad and
\* validar_origen.
TareaCreateValida(data) ==
  /\ data.titulo.len >= 1 /\ data.titulo.len <= TitleMax
  /\ data.prioridad \in Prioridades
  /\ data.origen \in Origenes

\* TareaUpdate: titulo of 1 to 100 characters when it is given;
\* validar_prioridad looks at a value only "if value".
TareaUpdateValida(data) ==
  /\ "titulo" \in DOMAIN data
       => (data.titulo.len >= 1 /\ data.titulo.len <= TitleMax)
  /\ "prioridad" \in DOMAIN data
       => (data.prioridad = "" \/ data.prioridad \in Prioridades)

\* The answer of a call on the tasks.
Respuesta(op, u, status) ==
  [NoCall EXCEPT !.op = op, !.usuario = u, !.status = status, !.desde = nextId]

\* A call on the tasks that answers an error and writes nothing.
Rechazada(op, u, status) ==
  /\ last' = Respuesta(op, u, status)
  /\ UNCHANGED <<tareas, nextId>>

\* for campo, valor in campos.items(): setattr(tarea, campo, valor)
Actualizada(tarea, campos, actualizables) ==
  [c \in DOMAIN tarea |->
     IF c \in actualizables /\ c \in DOMAIN campos THEN campos[c] ELSE tarea[c]]

crear_tarea(data) ==
  /\ calls' = calls + 1
  /\ UNCHANGED <<chats, estados, aiCalls, enCurso, usuarios>>
  /\ IF ~TareaCreateValida(data) THEN Rechazada("crear", data.usuario_id, 422)
     ELSE IF Falsy(data.usuario_id) THEN Rechazada("crear", data.usuario_id, 400)
     ELSE /\ tareas' = tareas \cup
                         {Tarea(nextId, data.usuario_id, Slice(data.titulo, TitleMax),
                                Missing, data.prioridad, data.origen)}
          /\ nextId' = nextId + 1
          /\ last' = Respuesta("crear", data.usuario_id, 200)

actualizar_tarea(tarea_id, data) ==
  /\ calls' = calls + 1
  /\ UNCHANGED <<chats, estados, aiCalls, enCurso, usuarios>>
  /\ IF ~TareaUpdateValida(data) THEN Rechazada("actualizar", Missing, 422)
     ELSE IF ~\E t \in tareas : t.id = tarea_id THEN Rechazada("actualizar", Missing, 404)
     ELSE IF DOMAIN data = {} THEN Rechazada("actualizar", Missing, 400)
     ELSE /\ tareas' = {IF t.id = tarea_id THEN Actualizada(t, data, DOMAIN data) ELSE t :
                          t \in tareas}
          /\ last' = Respuesta("actualizar", Missing, 200)
          /\ UNCHANGED nextId

eliminar_tarea(tarea_id) ==
  /\ calls' = calls + 1
  /\ UNCHANGED <<chats, estados, aiCalls, enCurso, usuarios>>
  /\ IF ~\E t \in tareas : t.id = tarea_id THEN Rechazada("eliminar", Missing, 404)
     ELSE /\ tareas' = {t \in tareas : t.id # tarea_id}
          /\ last' = Respuesta("eliminar", Missing, 200)
          /\ UNCHANGED nextId

marcar_tarea_completada(tarea_id, completada) ==
  /\ calls' = calls + 1
  /\ UNCHANGED <<chats, estados, aiCalls, enCurso, usuarios>>
  /\ IF ~\E t \in tareas : t.id = tarea_id THEN Rechazada("completar", Missing, 404)
     ELSE /\ tareas' = {IF t.id = tarea_id THEN [t EXCEPT !.completada = completada] ELSE t :
                          t \in tareas}
          /\ last' = Respuesta("completar", Missing, 200)
          /\ UNCHANGED nextId

\* A filter that looks at the id alone.
CoincideSoloId(t, tarea_id, usuario_id) == t.id = tarea_id

\* db.query(Tarea).filter_by(id=tarea_id, usuario_id=usuario_id)
Coincide(t, tarea_id, usuario_id) == t.id = tarea_id /\ t.usuario_id = usuario_id

\* tareas_actualizadas: one for each listed id the query finds a row for.
Encontrados(usuario_id, tarea_ids) ==
  Cardinality({i \in 1..Len(tarea_ids) :
                 \E t \in tareas : Coincide(t, tarea_ids[i], usuario_id)})

marcar_tareas_sincronizadas(usuario_id, tarea_ids) ==
  /\ calls' = calls + 1
  /\ UNCHANGED <<chats, estados, aiCalls, enCurso, usuarios>>
  /\ IF Len(tarea_ids) = 0
       THEN /\ last' = [Respuesta("marcar", usuario_id, 400) EXCEPT !.payload = tarea_ids]
            /\ UNCHANGED <<tareas, nextId>>
       ELSE /\ tareas' = {IF \E i \in 1..Len(tarea_ids) : Coincide(t, tarea_ids[i], usuario_id)
                            THEN [t EXCEPT !.sincronizada = TRUE] ELSE t : t \in tareas}
            /\ last' = [Respuesta("marcar", usuario_id, 200) EXCEPT
                          !.payload = tarea_ids,
                          !.cuenta = Encontrados(usuario_id, tarea_ids)]
            /\ UNCHANGED nextId

\* A list of fields that holds the owner too.
CamposSyncConDueno ==
  {"titulo", "descripcion", "prioridad", "completada", "sincronizada", "origen",
   "usuario_id"}

\* The fields sincronizar_tareas copies onto a row that exists.
CamposSync == {"titulo", "descripcion", "prioridad", "completada", "sincronizada", "origen"}

\* The row sincronizar_tareas builds for an id the table does not hold.
NuevaSync(t) ==
  [id |-> t.id, usuario_id |-> t.usuario_id,
   titulo |-> Slice(Get(t, "titulo", SinTitulo), TitleMax),
   descripcion |-> Get(t, "descripcion", Missing),
   prioridad |-> Get(t, "prioridad", "media"),
   origen |-> Get(t, "origen", "usuario"),
   sincronizada |-> TRUE, completada |-> Get(t, "completada", FALSE)]

\* One round of the loop of sincronizar_tareas: filas are the rows of the
\* table as the session holds them, nuevas the rows added to the session.
SyncUna(prev, t) ==
  IF "id" \notin DOMAIN t THEN prev
  ELSE IF \E x \in prev.filas : x.id = t.id
    THEN [prev EXCEPT !.filas = {IF x.id = t.id THEN Actualizada(x, t, CamposSync) ELSE x :
                                   x \in prev.filas}]
    ELSE [prev EXCEPT !.nuevas = Append(prev.nuevas, NuevaSync(t))]

\* The loop over the payload.
SyncTodas(payload, filas) ==
  LET f[i \in 0..Len(payload)] ==
        IF i = 0 THEN [filas |-> filas, nuevas |-> <<>>]
        ELSE SyncUna(f[i - 1], payload[i])
  IN f[Len(payload)]

\* What a String(100) column does with the titles it is handed depends on the
\* database of SQLALCHEMY_DATABASE_URL: it refuses a longer value, cuts it,
\* or keeps it whole.
Columnas == {"rechaza", "trunca", "guarda"}

Cabe(filas) == \A x \in filas : x.titulo.len <= TitleMax

Recortadas(filas) == {[x EXCEPT !.titulo = Slice(x.titulo, TitleMax)] : x \in filas}

\* Two rows added with one id: the flush is refused.
Choque(nuevas) ==
  \E i, j \in 1..Len(nuevas) : i # j /\ nuevas[i].id = nuevas[j].id

\* db.commit() of sincronizar_tareas and its answer.
SyncCommit(payload, r, filas, columna) ==
  IF Choque(r.nuevas) \/ (columna = "rechaza" /\ ~Cabe(filas))
    THEN /\ last' = [Respuesta("sync", Missing, 500) EXCEPT !.payload = payload]
         /\ UNCHANGED <<tareas, nextId>>
    ELSE /\ tareas' = IF columna = "trunca" THEN Recortadas(filas) ELSE filas
         /\ nextId' = nextId + Len(r.nuevas)
         /\ last' = [Respuesta("sync", Missing, 200) EXCEPT !.payload = payload]

sincronizar_tareas(payload, columna) ==
  /\ calls' = calls + 1
  /\ UNCHANGED <<chats, estados, aiCalls, enCurso, usuarios>>
  /\ IF Len(payload) = 0 THEN Rechazada("sync", Missing, 400)
     ELSE SyncCommit(payload, SyncTodas(payload, tareas),
                     SyncTodas(payload, tareas).filas
                       \cup Range(SyncTodas(payload, tareas).nuevas),
                     columna)

\* ----------------------------------------- the tasks and their writers
MaxCallsTareas == 3

\* The ids a client names: those of the rows of the table and one the table
\* does not hold.
Ids == {t.id : t \in tareas} \cup {nextId}

DatosCrear ==
  { [usuario_id |-> "u1", titulo |-> Title("a", 4), prioridad |-> "alta", origen |-> "ia"],
    [usuario_id |-> "", titulo |-> Title("a", 4), prioridad |-> "alta", origen |-> "ia"],
    [usuario_id |-> "u1", titulo |-> Title("L", 101), prioridad |-> "alta", origen |-> "ia"],
    [usuario_id |-> "u1", titulo |-> Title("a", 4), prioridad |-> "urgente", origen |-> "ia"],
    [usuario_id |-> "u1", titulo |-> Title("a", 4), prioridad |-> "alta", origen |-> "otro"] }

DatosActualizar ==
  {<<>>} \cup {[titulo |-> t] : t \in {Title("b", 4), Title("L", 101)}}
         \cup {[prioridad |-> p] : p \in {"baja", "urgente", ""}}

CamposCliente ==
  { [titulo |-> Title("L", 101)],
    [prioridad |-> "urgente"],
    [origen |-> "otro"],
    [titulo |-> Title("a", 4), prioridad |-> "alta", origen |-> "ia"] }

\* A task of the client with the id it names.
DeCliente(id, u, campos) == [id |-> id, usuario_id |-> u] @@ campos

Payloads ==
  {<<>>, <<[usuario_id |-> "u1", titulo |-> Title("a", 4)]>>}
    \cup {<<DeCliente(id, u, c)>> : id \in Ids, u \in Usuarios, c \in CamposCliente}
    \cup {<<DeCliente(id, "u1", [titulo |-> Title("L", 101)]),
             DeCliente(nextId, "u1", [prioridad |-> "urgente"])>> : id \in Ids}

\* The lists of ids a client acknowledges.
ListasDeIds ==
  {<<>>} \cup {<<a>> : a \in Ids}
        \cup {<<p[1], p[2]>> : p \in {q \in Ids \X Ids : q[1] <= q[2]}}

\* offset and limit of a read of the history
Offsets == 0..1

Limits == 1..2

RespuestasTareas ==
  {<<"w", "FJ", "[", "oUrg", "]", "F">>, <<"w", "[", "oL1", "]">>}

Crear ==
  /\ calls < MaxCallsTareas
  /\ \E data \in DatosCrear : crear_tarea(data)

Actualizar ==
  /\ calls < MaxCallsTareas
  /\ \E id \in Ids, data \in DatosActualizar : actualizar_tarea(id, data)

Sincronizar ==
  /\ calls < MaxCallsTareas
  /\ \E payload \in Payloads, columna \in Columnas :
       sincronizar_tareas(payload, columna)

EvaluarTareas ==
  /\ calls < MaxCallsTareas
  /\ \E ai \in AiEval : EvaluarEstadoEmocional("u1", ai, FALSE)

ChatTareas ==
  /\ calls < MaxCallsTareas
  /\ \E r \in RespuestasTareas :
       ConversarConIa("u1", "hola", [kind |-> "ok", content |-> r], FALSE, FALSE)

ProcesarTareas ==
  /\ calls < MaxCallsTareas
  /\ ProcesarTareasDelHistorial("u1", FALSE)

Eliminar ==
  /\ calls < MaxCallsTareas
  /\ \E id \in Ids : eliminar_tarea(id)

Completar ==
  /\ calls < MaxCallsTareas
  /\ \E id \in Ids, c \in BOOLEAN : marcar_tarea_completada(id, c)

MarcarSincronizadas ==
  /\ calls < MaxCallsTareas
  /\ \E u \in Usuarios, ids \in ListasDeIds : marcar_tareas_sincronizadas(u, ids)

LeerHistorial ==
  /\ calls < MaxCallsTareas
  /\ \E offset \in Offsets, limit \in Limits :
       obtener_historial_chat_usuario("u1", offset, limit, FALSE)

NextTareas ==
  \/ Crear \/ Actualizar \/ Sincronizar \/ Eliminar \/ Completar
  \/ MarcarSincronizadas \/ LeerHistorial
  \/ EvaluarTareas \/ ChatTareas \/ ProcesarTareas

SpecTareas == Init /\ [][NextTareas]_vars

\* ------------------------------- reconciliations served side by side
\* Number of turns persisted before the reconciliations, and of requests
\* served side by side.
MaxChatsCarrera == 2

MaxSesiones == 2

RespuestasCarrera ==
  {<<"w">>, <<"w", "[", "oL1", "]">>, <<"SENT", "LBL", "[", "oB", "]", "bulB">>}

\* A turn of a user without a state, served alone.
ChatCarrera ==
  /\ Len(chats) < MaxChatsCarrera
  /\ enCurso = <<>>
  /\ \E u \in Usuarios, r \in RespuestasCarrera :
       ConversarConIa(u, "hola", [kind |-> "ok", content |-> r], FALSE, FALSE)

\* The session of a request after the loop of
\* verificar_y_guardar_tareas_historial: the titles it read, the rows it added.
Sesion(u, historial, leidos, r) ==
  [usuario |-> u, historial |-> historial, leidos |-> leidos,
   nuevas |-> r.nuevas, pc |-> "leido"]

\* procesar_tareas_del_historial up to the db.commit() of the reconciliation:
\* the history and the existing titles are read and the new rows are added to
\* the session of the request.
Leer(u, historial, leidos) ==
  /\ enCurso' = Append(enCurso,
                       Sesion(u, historial, leidos,
                              GuardarNuevas(Candidatas(historial), leidos, u, nextId)))
  /\ nextId' = nextId + Len(enCurso'[Len(enCurso')].nuevas)
  /\ calls' = calls + 1
  /\ UNCHANGED <<chats, tareas, estados, aiCalls, last, usuarios>>

Empezar ==
  /\ Len(enCurso) < MaxSesiones
  /\ \E u \in Usuarios :
       Leer(u, HistorialCompleto(SelectSeq(chats, LAMBDA h : h.usuario_id = u)),
            TitulosExistentes(u))

\* What the table holds after a session commits its rows: no constraint of
\* the table looks at the titles.
Confirmadas(filas, nuevas) == filas \cup Range(nuevas)

\* db.commit() of the reconciliation and the answer of the request.
Confirmar ==
  \E i \in 1..Len(enCurso) :
    /\ enCurso[i].pc = "leido"
    /\ tareas' = Confirmadas(tareas, enCurso[i].nuevas)
    /\ enCurso' = [enCurso EXCEPT ![i].pc = "hecho"]
    /\ last' = [NoCall EXCEPT !.op = "procesar", !.usuario = enCurso[i].usuario,
                  !.status = 200, !.historial = enCurso[i].historial,
                  !.backfill = IF Len(enCurso[i].nuevas) > 0 THEN "ok" ELSE "none"]
    /\ UNCHANGED <<chats, estados, nextId, aiCalls, calls, usuarios>>

NextCarrera == ChatCarrera \/ Empezar \/ Confirmar

SpecCarrera == Init /\ [][NextCarrera]_vars

\* ------------------------------------------- the pages of the history
MaxCallsPaginas == 4

RespuestasPaginas == {<<"w">>, <<"w", "[", "oA", "]">>}

ChatPaginas ==
  /\ calls < MaxCallsPaginas
  /\ \E u \in Usuarios, r \in RespuestasPaginas :
       ConversarConIa(u, "hola", [kind |-> "ok", content |-> r], FALSE, FALSE)

LeerPaginas ==
  /\ calls < MaxCallsPaginas
  /\ \E u \in Usuarios, offset \in 0..MaxCallsPaginas, limit \in Limits, f \in BOOLEAN :
       obtener_historial_chat_usuario(u, offset, limit, f)

ProcesarPaginas ==
  /\ calls < MaxCallsPaginas
  /\ \E u \in Usuarios, f \in BOOLEAN : ProcesarTareasDelHistorial(u, f)

NextPaginas == ChatPaginas \/ LeerPaginas \/ ProcesarPaginas

SpecPaginas == Init /\ [][NextPaginas]_vars

\* ------------------------------------------------ routers/usuario.py
MaxPeticiones == 3

Correos == {"a@x", "b@x"}

\* A table of users with no unique index on correo.
SinIndiceUnico(filas, id, correo) == FALSE

\* correo = Column(String(100), unique=True): the flush of a row is refused
\* when another row holds its correo.
IndiceRechaza(filas, id, correo) ==
  \E x \in filas : x.correo = correo /\ x.id # id

\* The answer of a request that ends before its commit.
Negada(op, id, correo, status) ==
  [op |-> op, id |-> id, nombre |-> Missing, correo |-> correo,
   pc |-> "hecho", status |-> status]

\* A request whose session holds a row to write.
Pendiente(op, id, nombre, correo) ==
  [op |-> op, id |-> id, nombre |-> nombre, correo |-> correo,
   pc |-> "leido", status |-> 0]

\* register up to db.commit(): 400 when the query finds the correo.
register(data) ==
  /\ enCurso' = Append(enCurso,
                       IF \E x \in usuarios : x.correo = data.correo
                         THEN Negada("register", nextId, data.correo, 400)
                         ELSE Pendiente("register", nextId, data.nombre, data.correo))
  /\ nextId' = nextId + 1
  /\ calls' = calls + 1
  /\ UNCHANGED <<chats, tareas, estados, aiCalls, last, usuarios>>

\* The fields of the row the session has changed after the two assignments
\* (Missing for a field it has not): a falsy field of the body, or the value
\* that was read, changes nothing.
Editado(user, data) ==
  Pendiente("update_user", user.id,
            IF Falsy(data.nombre) \/ data.nombre = user.nombre
              THEN Missing ELSE data.nombre,
            IF Falsy(data.correo) \/ data.correo = user.correo
              THEN Missing ELSE data.correo)

\* update_user up to db.commit(): 404 when the user is not found, 400 when
\* the query finds the new correo.
update_user(user_id, data) ==
  /\ enCurso' = Append(enCurso,
       IF ~\E x \in usuarios : x.id = user_id
         THEN Negada("update_user", user_id, Missing, 404)
       ELSE IF /\ ~Falsy(data.correo)
               /\ \E x \in usuarios : x.id = user_id /\ x.correo # data.correo
               /\ \E x \in usuarios : x.correo = data.correo
         THEN Negada("update_user", user_id, data.correo, 400)
       ELSE Editado(CHOOSE x \in usuarios : x.id = user_id, data))
  /\ calls' = calls + 1
  /\ UNCHANGED <<chats, tareas, estados, nextId, aiCalls, last, usuarios>>

\* The rows after the flush of a session: the row it added, or its row with
\* the fields the session has changed.
Escritas(filas, s) ==
  IF s.op = "register"
    THEN filas \cup {[id |-> s.id, nombre |-> s.nombre, correo |-> s.correo]}
    ELSE {IF x.id = s.id
            THEN [x EXCEPT !.nombre = IF s.nombre = Missing THEN @ ELSE s.nombre,
                           !.correo = IF s.correo = Missing THEN @ ELSE s.correo]
            ELSE x : x \in filas}

\* db.commit() of register and of update_user: refused by the unique index
\* (the exception is not caught: 500 and nothing is written), else written.
Commit(i, rechaza) ==
  /\ enCurso[i].pc = "leido"
  /\ enCurso' = [enCurso EXCEPT ![i].pc = "hecho",
                                ![i].status = IF rechaza THEN 500 ELSE 200]
  /\ usuarios' = IF rechaza THEN usuarios ELSE Escritas(usuarios, enCurso[i])
  /\ UNCHANGED <<chats, tareas, estados, nextId, aiCalls, calls, last>>

DatosRegistro == [nombre : {"n"}, correo : Correos]

DatosUsuario == [nombre : {Missing, "m"}, correo : Correos \cup {Missing}]

Registrar ==
  /\ Len(enCurso) < MaxPeticiones
  /\ \E data \in DatosRegistro : register(data)

ActualizarUsuario ==
  /\ Len(enCurso) < MaxPeticiones
  /\ \E user_id \in {x.id : x \in usuarios} \cup {0}, data \in DatosUsuario :
       update_user(user_id, data)

ConfirmarUsuario ==
  \E i \in 1..Len(enCurso) :
    Commit(i, IndiceRechaza(usuarios, enCurso[i].id, enCurso[i].correo))

NextUsuarios == Registrar \/ ActualizarUsuario \/ ConfirmarUsuario

SpecUsuarios == Init /\ [][NextUsuarios]_vars

\* ------------------------------------------------------------- claims
\* The turn the last call persisted has the first uuid4 of the call.
ChatDelTurno == {i \in 1..Len(chats) : chats[i].id = last.desde}

\* The tasks of the turn have the uuid4 values after it.
TareasDelTurnoGuardadas ==
  {t \in tareas : t.id \in (last.desde + 1)..(last.desde + Len(last.extraidas))}

IsInfix(a, s) ==
  \E i \in 0..(Len(s) - Len(a)) : SubSeq(s, i + 1, i + Len(a)) = a

\* The span of the reply the tasks of the turn were read from.
SpanOf(s, m) == SubSeq(s, m.b, m.e)

BloqueRecuperado(s) == SpanOf(s, Search(PrimerPatron(s), s))

\* C1: for each user, at most one persisted task of origin "ia" per stored
\* title.
C1_UnaTareaIaPorTitulo ==
  \A t1, t2 \in tareas :
    (/\ t1.usuario_id = t2.usuario_id
     /\ t1.origen = "ia" /\ t2.origen = "ia"
     /\ t1.titulo = t2.titulo) => t1.id = t2.id

\* C2: a reconciliation that follows a reconciliation of the same user over
\* the same history, the first one not refused by the database, persists no
\* task.
C2_SegundaReconciliacionNoGuarda ==
  [][(/\ last.op = "procesar" /\ last.status = 200 /\ last.backfill # "failed"
      /\ calls' = calls + 1
      /\ last'.op = "procesar" /\ last'.usuario = last.usuario
      /\ last'.historial = last.historial)
     => tareas' = tareas]_vars

\* C3: a chat call that answers 200 after its backfill failed to commit has
\* persisted its turn and the tasks of its reply.
C3_BackfillFallidoNoDeshaceTurno ==
  (last.op = "chat" /\ last.status = 200 /\ last.backfill = "failed")
    => /\ ChatDelTurno # {}
       /\ Cardinality(TareasDelTurnoGuardadas) = Len(last.extraidas)

\* C4: for a user without a state who has a persisted turn flagged as
\* recommendation, no later chat call builds a prompt asking for the sentinel.
C4_NoVuelveAPedirSentinel ==
  (/\ last.op = "chat" /\ last.ai # "none" /\ ~last.estado
   /\ \E i \in 1..Len(chats) :
        /\ chats[i].usuario_id = last.usuario
        /\ chats[i].recomendacion_formulario
        /\ chats[i].id < last.desde)
    => ~last.pideSentinel

\* C5: a successful chat call of a user who has a state answers and stores a
\* recommendation flag that is false.
C5_ConEstadoNoRecomienda ==
  (last.op = "chat" /\ last.status = 200 /\ last.estado)
    => /\ ~last.esRecomendacion
       /\ \A i \in ChatDelTurno : ~chats[i].recomendacion_formulario

\* C6: a chat call with an empty or missing usuario_id or mensaje answers 400,
\* sends no request to the AI service and leaves every table as it was.
C6_PayloadInvalidoSinEfecto ==
  [][(/\ calls' = calls + 1
      /\ last'.op = "chat"
      /\ (Falsy(last'.usuario) \/ Falsy(last'.mensaje)))
     => (/\ last'.status = 400
         /\ aiCalls' = aiCalls
         /\ UNCHANGED <<chats, tareas, estados>>)]_vars

C6_Witness ==
  /\ last.op = "chat" /\ last.status = 400
  /\ ~Falsy(last.usuario) /\ Falsy(last.mensaje)
  /\ chats # <<>> /\ tareas # {}

\* C7: a chat call whose request to the AI service raises or answers a status
\* other than 200 answers 500, adds no turn and no task, and has sent exactly
\* one request.
C7_FalloIaNoPersiste ==
  [][(/\ calls' = calls + 1
      /\ last'.op = "chat"
      /\ last'.ai \in {"status", "raise"})
     => (/\ last'.status = 500
         /\ aiCalls' = aiCalls + 1
         /\ UNCHANGED <<chats, tareas, estados>>)]_vars

C7_Witness ==
  /\ last.op = "chat" /\ last.ai = "status" /\ last.status = 500
  /\ chats # <<>>

\* C8: after a chat call the turn and one task per task of the reply are all
\* persisted or none is, and a call that answers 200 has persisted exactly one
\* new turn.
C8_EscrituraAtomica ==
  last.op = "chat"
    => /\ \/ /\ ChatDelTurno # {}
             /\ Cardinality(TareasDelTurnoGuardadas) = Len(last.extraidas)
          \/ /\ ChatDelTurno = {}
             /\ TareasDelTurnoGuardadas = {}
       /\ last.status = 200
            => Cardinality({i \in 1..Len(chats) : chats[i].id >= last.desde}) = 1

C10_BloqueFueraDelTexto ==
  (last.op = "chat" /\ last.status = 200 /\ Len(last.tareas_generadas) > 0)
    => ~IsInfix(BloqueRecuperado(QuitarSentinel(last.raw)), last.text)

\* C11: the text a successful chat call answers, and the text of the turn it
\* persisted, do not hold the sentinel.
C11_TextoSinSentinel ==
  (last.op = "chat" /\ last.status = 200)
    => /\ ~TieneSentinel(last.text)
       /\ \A i \in ChatDelTurno : ~TieneSentinel(chats[i].respuesta_ia)

\* C12: a chat call of a user who has a state, whose request to the AI
\* service succeeded, answers 200 whatever the reply holds.
C12_ContenidoMalformadoNoFalla ==
  (last.op = "chat" /\ last.estado /\ last.ai = "ok") => last.status = 200

\* The tokens that write a task object.
Objetos == {t \in ItemToks : IsDict(ItemValue(t))}

\* An item with the priority "media" when it carries none.
ConPrioridad(v) ==
  IF "prioridad" \in DOMAIN v THEN v ELSE v @@ [prioridad |-> "media"]

\* The lists of task objects that s holds in a fence, with prose around.
EnCerca(s) ==
  {l \in Listas :
     /\ \A i \in 1..Len(l) : l[i] \in Objetos
     /\ \E pre \in {<<>>, <<"w">>}, f \in {"FJ", "F"}, post \in {<<>>, <<"w">>} :
          s = pre \o <<f, "[">> \o l \o <<"]", "F">> \o post}

\* C13: of a text that holds a fenced block with a well-formed list of task
\* objects, extraer_bloque_tareas returns the items of the list in their
\* order, each with a priority, "media" when the item carries none.
C13_BloqueCercadoExacto ==
  last.op = "extraer"
    => \A l \in EnCerca(last.raw) :
         last.extraidas = [i \in 1..Len(l) |-> ConPrioridad(ItemValue(l[i]))]

\* No "[" ... "]" of the text encloses a list of JSON values.
NingunaLista(s) ==
  ~\E i, j \in 1..Len(s) :
     /\ i < j /\ s[i] = "[" /\ s[j] = "]"
     /\ \A k \in (i + 1)..(j - 1) : s[k] \in ItemToks

\* C14: of a text in which no pattern yields a list that parses,
\* extraer_bloque_tareas returns the empty sequence, and no table changes.
C14_SinListaVacio ==
  last.op = "extraer"
    => /\ chats = <<>> /\ tareas = {} /\ estados = <<>>
       /\ (NingunaLista(last.raw) \/ \A k \in 1..4 : ~Parse(k, last.raw).ok)
            => last.extraidas = <<>>

C14_Witness ==
  /\ last.op = "extraer"
  /\ NingunaLista(last.raw)
  /\ \E k \in 1..4 : Search(k, last.raw).found
  /\ last.extraidas = <<>>

\* The lists that do not parse and the lists of task objects that s holds, the
\* first in a json fence and the second after the label, in either order.
MalYEtiqueta(s) ==
  {p \in Listas \X Listas :
     /\ \E i \in 1..Len(p[1]) : p[1][i] = "bad"
     /\ Len(p[2]) > 0 /\ \A i \in 1..Len(p[2]) : p[2][i] \in Objetos
     /\ \/ s = <<"FJ", "[">> \o p[1] \o <<"]", "F", "LBL", "[">> \o p[2] \o <<"]">>
        \/ s = <<"LBL", "[">> \o p[2] \o <<"]", "FJ", "[">> \o p[1] \o <<"]", "F">>}

\* C15: of a text that holds a json-fenced block that does not parse and a
\* well-formed labeled list, extraer_bloque_tareas returns the items of the
\* labeled list.
C15_SaltaAlSiguientePatron ==
  last.op = "extraer"
    => \A p \in MalYEtiqueta(last.raw) : last.extraidas = Valores(p[2])

\* A reply that holds a trigger phrase, in lower or upper case.
TieneFrase(texto) == \E j \in 1..Len(texto) : texto[j] \in {"TRIG", "TRIGM"}

\* C16: ya_recomendo_formulario is true exactly when a turn of the history has
\* its flag set or a reply that holds a trigger phrase in any case.
C16_YaRecomendoSiYSoloSi ==
  last.op = "ya_recomendo"
    => (last.recomendo <=>
          \E i \in 1..Len(last.historial) :
            \/ last.historial[i].recomendacion_formulario
            \/ TieneFrase(last.historial[i].respuesta_ia))

C16_Witness ==
  /\ last.op = "ya_recomendo"
  /\ last.recomendo
  /\ Len(last.historial) > 0
  /\ \A i \in 1..Len(last.historial) :
       /\ ~last.historial[i].recomendacion_formulario
       /\ \A j \in 1..Len(last.historial[i].respuesta_ia) :
            last.historial[i].respuesta_ia[j] # "TRIG"

\* The titles of the candidates a history yields.
TitulosCandidatos(historial) ==
  {Get(c, "titulo", EmptyTitle) : c \in Range(Candidatas(historial))}

\* The titles that candidates of two different turns share.
TitulosRepetidos(h) ==
  {t \in TitulosCandidatos(h) :
     \E i, j \in 1..Len(h) :
       /\ i # j
       /\ t \in TitulosCandidatos(<<h[i]>>)
       /\ t \in TitulosCandidatos(<<h[j]>>)}

\* C17: a reconciliation that commits persists one task for each candidate
\* title that was not among the existing titles, however many turns hold it.
C17_UnaPorTituloRepetido ==
  [][(/\ calls' = calls + 1
      /\ last'.op = "procesar" /\ last'.backfill = "ok")
     => /\ Cardinality(tareas' \ tareas)
             = Cardinality(TitulosCandidatos(last'.historial)
                             \ TitulosExistentes(last'.usuario))
        /\ \A t \in TitulosRepetidos(last'.historial)
                      \ TitulosExistentes(last'.usuario) :
             Cardinality({x \in tareas' \ tareas :
                            x.titulo = Slice(t, TitleMax)}) = 1]_vars

C17_Witness ==
  /\ last.op = "procesar" /\ last.backfill = "ok"
  /\ \E t \in TitulosRepetidos(last.historial) :
       /\ Cardinality({x \in tareas : x.id >= last.desde}) = 1
       /\ \A x \in tareas : x.id >= last.desde => x.titulo = Slice(t, TitleMax)

\* The pairs of sessions of one user that both added a row with the same
\* title after reading titles that did not hold it.
Carreras ==
  {p \in (1..Len(enCurso)) \X (1..Len(enCurso)) :
     /\ p[1] < p[2]
     /\ enCurso[p[1]].usuario = enCurso[p[2]].usuario
     /\ \E a \in Range(enCurso[p[1]].nuevas), b \in Range(enCurso[p[2]].nuevas) :
          a.titulo = b.titulo}

\* C18: when two reconciliations of one user have read the existing titles
\* before either committed and both have committed, the table holds the rows
\* of both, two tasks of origin "ia" with the same title among them.
C18_CarreraDuplica ==
  \A p \in Carreras :
    (enCurso[p[1]].pc = "hecho" /\ enCurso[p[2]].pc = "hecho")
      => /\ Range(enCurso[p[1]].nuevas) \subseteq tareas
         /\ Range(enCurso[p[2]].nuevas) \subseteq tareas
         /\ \E a, b \in tareas :
              /\ a.id # b.id /\ a.usuario_id = b.usuario_id
              /\ a.origen = "ia" /\ b.origen = "ia" /\ a.titulo = b.titulo

C18_Witness ==
  \E p \in Carreras :
    /\ enCurso[p[1]].pc = "hecho" /\ enCurso[p[2]].pc = "hecho"
    /\ enCurso[p[1]].leidos = enCurso[p[2]].leidos
    /\ \E a \in Range(enCurso[p[1]].nuevas), b \in Range(enCurso[p[2]].nuevas) :
         a.titulo = b.titulo /\ a \in tareas /\ b \in tareas

\* C19: the title of every persisted task has at most 100 characters.
C19_TituloCabe == \A t \in tareas : t.titulo.len <= TitleMax

\* C20: every persisted task has a priority among alta, media and baja and an
\* origin among usuario and ia.
C20_PrioridadYOrigenEnumerados ==
  \A t \in tareas : t.prioridad \in Prioridades /\ t.origen \in Origenes

\* C21: only evaluar_estado_emocional adds, changes or removes a snapshot of
\* a state: every other call leaves the snapshots as they were, so a user
\* without a state has none after a chat turn.
C21_EstadoSoloPorEvaluacion ==
  [][(calls' = calls + 1 /\ last'.op # "evaluar") => estados' = estados]_vars

C21_Witness ==
  /\ last.op = "chat" /\ last.status = 200 /\ ~last.estado
  /\ Cardinality({i \in 1..Len(chats) : chats[i].usuario_id = last.usuario}) >= 2
  /\ obtener_ultimo_estado_psicologico(last.usuario) = <<>>

\* C22: every call keeps the turns and the snapshots that were persisted, with
\* their fields, and a chat call of a user who has a state takes the latest
\* snapshot of that user.
C22_TurnosYEstadosInmutables ==
  [][/\ Len(chats') >= Len(chats) /\ SubSeq(chats', 1, Len(chats)) = chats
     /\ Len(estados') >= Len(estados) /\ SubSeq(estados', 1, Len(estados)) = estados
     /\ (calls' = calls + 1 /\ last'.op = "chat" /\ last'.estado)
          => \E i \in 1..Len(estados) :
               /\ estados[i].usuario_id = last'.usuario
               /\ estados[i].id = last'.estadoUsado
               /\ \A j \in (i + 1)..Len(estados) :
                    estados[j].usuario_id # last'.usuario]_vars

C22_Witness ==
  /\ last.op = "chat" /\ last.status = 200 /\ last.estado
  /\ Cardinality({i \in 1..Len(estados) : estados[i].usuario_id = last.usuario}) >= 2
  /\ last.estadoUsado = estados[Len(estados)].id
  /\ Len(chats) >= 1

\* The requests that end in the step.
Terminan ==
  {i \in 1..Len(enCurso') :
     enCurso'[i].pc = "hecho" /\ (i > Len(enCurso) \/ enCurso[i].pc # "hecho")}

\* C23: no two users share a correo, and a register or update_user request
\* that ends while another user holds its correo answers an error and leaves
\* the users as they were.
C23_CorreoUnico ==
  [][/\ \A a, b \in usuarios' : a.correo = b.correo => a.id = b.id
     /\ \A i \in Terminan :
          /\ enCurso'[i].status # 200 => usuarios' = usuarios
          /\ (\E x \in usuarios : x.correo = enCurso'[i].correo /\ x.id # enCurso'[i].id)
               => enCurso'[i].status # 200]_vars

C23_Witness ==
  \E i, j \in 1..Len(enCurso) :
    /\ i # j
    /\ enCurso[i].op = "register" /\ enCurso[i].status = 200
    /\ enCurso[j].status = 500 /\ enCurso[j].correo = enCurso[i].correo
    /\ Cardinality({x \in usuarios : x.correo = enCurso[i].correo}) = 1

\* The turns of the user of the last call, oldest first.
TurnosDe(u) == SelectSeq(chats, LAMBDA h : h.usuario_id = u)

\* The offsets of the pages asked before the page at offset, with one limit.
Anteriores(offset, limit) == {o \in 0..(offset - 1) : o % limit = 0}

\* C24: the page at offset 0 holds the last limit turns of the user in
\* chronological order, and a page at a later multiple of limit holds only
\* turns older than every turn of the pages before it.
C24_PaginasSinRepetir ==
  (last.op = "leer" /\ last.status = 200 /\ last.offset % last.limit = 0)
    => /\ last.offset = 0
            => last.historial = Ventana(TurnosDe(last.usuario), 0, last.limit)
       /\ \A o \in Anteriores(last.offset, last.limit) :
            \A h \in Range(last.historial),
               g \in Range(Pagina(TurnosDe(last.usuario), o, last.limit)) :
              h.id < g.id

\* C25: a reconciliation whose candidates all carry a title among the
\* existing titles of the user, and a read of the history at an offset above
\* 0, write nothing.
C25_SinNuevasNoEscribe ==
  [][(/\ calls' = calls + 1
      /\ last'.op \in {"procesar", "leer"}
      /\ \/ TitulosCandidatos(last'.historial) \subseteq TitulosExistentes(last'.usuario)
         \/ (last'.op = "leer" /\ last'.offset > 0))
     => UNCHANGED <<tareas, chats, estados, usuarios>>]_vars

C25_Witness ==
  /\ last.op = "leer" /\ last.offset > 0 /\ last.backfill = "none"
  /\ TitulosCandidatos(last.historial) # {}
  /\ TitulosCandidatos(last.historial) \cap TitulosExistentes(last.usuario) = {}

\* C26: a chat call of a user without a state answers no generated task and
\* takes none from the reply: the tasks it persists are those of the
\* reconciliation of the history it read.
C26_SinEstadoNoExtrae ==
  [][(calls' = calls + 1 /\ last'.op = "chat" /\ ~last'.estado)
     => /\ last'.tareas_generadas = <<>> /\ last'.extraidas = <<>>
        /\ \A x \in tareas' \ tareas :
             \E t \in TitulosCandidatos(last'.historial) : x.titulo = Slice(t, TitleMax)
        /\ Cardinality(tareas' \ tareas)
             <= Cardinality(TitulosCandidatos(last'.historial)
                              \ TitulosExistentes(last'.usuario))]_vars

C26_Witness ==
  /\ last.op = "chat" /\ last.status = 200 /\ ~last.estado
  /\ Len(extraer_bloque_tareas(QuitarSentinel(last.raw))) > 0
  /\ last.tareas_generadas = <<>>
  /\ \A x \in tareas : x.id < last.desde

\* C27: a task that a call keeps has after the call the usuario_id it had
\* before it.
C27_DuenoNoCambia ==
  [][\A t \in tareas, t2 \in tareas' :
       t2.id = t.id => t2.usuario_id = t.usuario_id]_vars

C27_Witness ==
  /\ last.op = "sync" /\ last.status = 200
  /\ \E i \in 1..Len(last.payload), t \in tareas :
       /\ "id" \in DOMAIN last.payload[i] /\ "titulo" \in DOMAIN last.payload[i]
       /\ t.id = last.payload[i].id /\ t.id < last.desde
       /\ t.titulo = last.payload[i].titulo
       /\ t.usuario_id # last.payload[i].usuario_id

\* The places of the list that name a task of the user.
Acertados(usuario_id, tarea_ids) ==
  {i \in 1..Len(tarea_ids) :
     \E t \in tareas : t.id = tarea_ids[i] /\ t.usuario_id = usuario_id}

\* C28: marcar_tareas_sincronizadas sets sincronizada on the tasks of the
\* user that the list names, leaves every other task as it was, and answers
\* the number of places of the list that name a task of the user.
C28_MarcaSoloLasDelUsuario ==
  [][(calls' = calls + 1 /\ last'.op = "marcar" /\ last'.status = 200)
     => /\ tareas' = {IF t.id \in Range(last'.payload) /\ t.usuario_id = last'.usuario
                        THEN [t EXCEPT !.sincronizada = TRUE] ELSE t : t \in tareas}
        /\ last'.cuenta = Cardinality(Acertados(last'.usuario, last'.payload))]_vars

C28_Witness ==
  /\ last.op = "marcar" /\ last.status = 200
  /\ last.cuenta = 1 /\ Len(last.payload) = 2
  /\ \E t, o \in tareas :
       /\ t.id \in Range(last.payload) /\ t.usuario_id = last.usuario /\ t.sincronizada
       /\ o.id \in Range(last.payload) /\ o.usuario_id # last.usuario /\ ~o.sincronizada

====
